---- MODULE Spec2Model ----
(***************************************************************************)
(* Model of Bear's intercept wrapper, report/wrapper/Application.cc:       *)
(* Application::command (mode dispatch and Command construction) and       *)
(* Command::execute (resolve, spawn, report, signal-forwarding wait loop,  *)
(* exit-code mapping).                                                     *)
(*                                                                         *)
(* A run of the wrapper process is a record; every step of the code is a   *)
(* function from a run (and the step's input) to the next run, so that the *)
(* same steps drive one run (Spec) and two runs side by side (PairSpec).   *)
(* Strings and paths are sequences of tokens; a token is an atomic chunk   *)
(* of characters, "/" being the directory separator.                       *)
(***************************************************************************)
EXTENDS Naturals, Sequences, FiniteSets, TLC

VARIABLES run, run2

vars == <<run, run2>>

----------------------------------------------------------------------------
(* Bounds *)

MaxPathLen == 3
MaxWaits == 2
MaxSignals == 1

----------------------------------------------------------------------------
(* Values *)

EXIT_FAILURE == 1

PathTokens == {"/", "wrapper", "cc"}

RECURSIVE SeqsUpTo(_, _)
SeqsUpTo(S, n) ==
    IF n = 0 THEN {<<>>}
    ELSE LET shorter == SeqsUpTo(S, n - 1)
         IN  shorter \cup {Append(s, t) : s \in {x \in shorter : Len(x) = n - 1}, t \in S}

Paths == SeqsUpTo(PathTokens, MaxPathLen)

WRAPPER_NAME == <<"wrapper">>

ExitCodes == {0, 3}

Signals == {15}

(* rust::Result<T>: Ok(value) or Err(error). *)
Ok(v) == [ok |-> TRUE, value |-> v]
Err(m) == [ok |-> FALSE, error |-> m]
Unset == Err("<unset>")

(* std::optional / a lookup that may find nothing. *)
Some(v) == Ok(v)
None == Err("<none>")

EmptyStr == <<>>
DestValues == {EmptyStr, <<"/", "tmp">>}
ExecValues == {EmptyStr, <<"/", "cc">>}
CommandValues == {<<<<"cc">>, <<"-c">>>>}
Cwd == <<"/", "cwd">>
ExtraArg == <<"-c">>
Dispositions == {"default", "ignore"}

(* fs::path::filename(): what follows the last directory separator. *)
RECURSIVE Filename(_)
Filename(p) ==
    IF p = <<>> THEN <<>>
    ELSE IF p[Len(p)] = "/" THEN <<>>
    ELSE Append(Filename(SubSeq(p, 1, Len(p) - 1)), p[Len(p)])

is_wrapper_call_whole_path(argc, argv) ==
    IF argc > 0 THEN argv[1] # WRAPPER_NAME ELSE FALSE

is_wrapper_call(argc, argv) ==
    IF argc > 0 THEN Filename(argv[1]) # WRAPPER_NAME ELSE FALSE

(* rust::merge: the tuple of the values when both succeeded, else the first
   error, left to right. *)
merge(a, b) ==
    IF ~a.ok THEN a
    ELSE IF ~b.ok THEN b
    ELSE Ok(<<a.value, b.value>>)

merge3(a, b, c) ==
    IF ~a.ok THEN a
    ELSE IF ~b.ok THEN b
    ELSE IF ~c.ok THEN c
    ELSE Ok(<<a.value, b.value, c.value>>)

(* sys::path::get_cwd *)
get_cwd(cwdOk) == IF cwdOk THEN Ok(Cwd) ELSE Err("GetCwdFailed")

(* flags::Arguments::as_string / as_string_list *)
as_string(flag) == IF flag.ok THEN flag ELSE Err("FlagMissing")

Session(destination) == [destination |-> destination]

Execution(executable, arguments, working_dir, environment) ==
    [executable |-> executable, arguments |-> arguments,
     working_dir |-> working_dir, environment |-> environment]

Wrapper_make_session_defaulting(environment) ==
    IF ~environment.destination.ok
    THEN Ok(Session(EmptyStr))
    ELSE Ok(Session(environment.destination.value))

Wrapper_make_session(environment) ==
    IF ~environment.destination.ok
    THEN Err("Unknown destination.")
    ELSE Ok(Session(environment.destination.value))

Wrapper_make_execution_dropping_program(argv, environment, cwdOk) ==
    LET working_dir == get_cwd(cwdOk)
    IN  IF working_dir.ok
        THEN Ok(Execution(argv[1], Tail(argv), working_dir.value, environment))
        ELSE working_dir

Wrapper_make_execution(argv, environment, cwdOk) ==
    LET program == argv[1]
        arguments == argv
        working_dir == get_cwd(cwdOk)
    IN  IF working_dir.ok
        THEN Ok(Execution(program, arguments, working_dir.value, environment))
        ELSE working_dir

Supervisor_make_session(args) ==
    LET destination == as_string(args.destination)
    IN  IF destination.ok THEN Ok(Session(destination.value)) ELSE destination

Supervisor_make_execution_optional_arguments(args, environment, cwdOk) ==
    LET program == as_string(args.execute)
        arguments == IF args.command.ok THEN args.command ELSE Ok(<<>>)
        working_dir == get_cwd(cwdOk)
        merged == merge3(program, arguments, working_dir)
    IN  IF merged.ok
        THEN Ok(Execution(merged.value[1], merged.value[2], merged.value[3], environment))
        ELSE merged

Supervisor_make_execution(args, environment, cwdOk) ==
    LET program == as_string(args.execute)
        arguments == as_string(args.command)
        working_dir == get_cwd(cwdOk)
        merged == merge3(program, arguments, working_dir)
    IN  IF merged.ok
        THEN Ok(Execution(merged.value[1], merged.value[2], merged.value[3], environment))
        ELSE merged

----------------------------------------------------------------------------
(* The wrapper process *)

Environments == [destination : {None} \cup {Some(d) : d \in DestValues}]

Argvs ==
    {<<>>} \cup {<<p>> : p \in Paths} \cup {<<p, ExtraArg>> : p \in SeqsUpTo(PathTokens, 1)}

ParsedArguments ==
    [destination : {None} \cup {Some(d) : d \in DestValues},
     execute : {None} \cup {Some(e) : e \in ExecValues},
     command : {None} \cup {Some(c) : c \in CommandValues}]

(* The process as main() enters Application::command. *)
InitRun(argv, environment, cwdOk, disposition) ==
    [pc |-> "command",
     argc |-> Len(argv), argv |-> argv, envp |-> environment, cwdOk |-> cwdOk,
     path |-> "none", parsed |-> FALSE, args |-> None,
     command |-> Unset,
     resolves |-> 0, resolved |-> Unset, spawned |-> Unset, spawns |-> 0,
     spawnedFrom |-> None, child |-> "none",
     events |-> <<>>, reportFailed |-> FALSE,
     waits |-> <<>>, status |-> Unset, waitFailed |-> FALSE,
     disposition0 |-> disposition, disposition |-> disposition, saved |-> None,
     guardInstalls |-> 0,
     signals |-> 0, childSignals |-> 0, forwarded |-> 0,
     result |-> Unset]

(* Application::command: the mode dispatch. *)
command(r) ==
    IF is_wrapper_call(r.argc, r.argv)
    THEN [r EXCEPT !.pc = "from_envs", !.path = "wrapper_call"]
    ELSE [r EXCEPT !.pc = "parse", !.path = "supervisor_call"]

(* A Command was built: main() goes on to Command::execute. *)
Built(r, session, execution) ==
    IF merge(session, execution).ok
    THEN [r EXCEPT !.pc = "resolve",
                   !.command = Ok([session |-> session.value, execution |-> execution.value])]
    ELSE [r EXCEPT !.pc = "failed", !.command = merge(session, execution)]

from_envs(r) ==
    Built(r, Wrapper_make_session(r.envp),
             Wrapper_make_execution(r.argv, r.envp, r.cwdOk))

(* Application::parse (flags::Parser::parse_or_exit): the parsed arguments, or
   the process exits with the usage message. *)
parse(r, outcome) ==
    IF ~outcome.ok THEN [r EXCEPT !.pc = "usage_exit", !.parsed = TRUE]
    ELSE [r EXCEPT !.pc = "from_args", !.parsed = TRUE, !.args = outcome]

from_args(r) ==
    Built(r, Supervisor_make_session(r.args.value),
             Supervisor_make_execution(r.args.value, r.envp, r.cwdOk))

----------------------------------------------------------------------------
(* Command::execute *)

(* sys::ExitStatus *)
Exited(c) == [kind |-> "Exited", n |-> c]
Signaled(s) == [kind |-> "Signaled", n |-> s]
is_signaled(st) == st.kind = "Signaled"
is_exited(st) == st.kind = "Exited"
code(st) == IF st.kind = "Exited" THEN Some(st.n) ELSE None
signal(st) == IF st.kind = "Signaled" THEN Some(st.n) ELSE None

(* wr::EventFactory *)
StartEvent(pid, ppid, execution) ==
    [type |-> "Start", pid |-> pid, ppid |-> ppid, execution |-> execution]
SignalEvent(number) == [type |-> "Signal", number |-> number]
TerminateEvent(c) == [type |-> "Terminate", code |-> c]

(* InterceptorClient::report: the call is made; a failure is logged by the
   client and goes nowhere else. *)
report(r, event, ok) ==
    [r EXCEPT !.events = Append(@, event), !.reportFailed = @ \/ ~ok]

(* What the supervisor may answer: the execution as asked, or rewritten. *)
Rewritten(execution) == [execution EXCEPT !.executable = <<"/", "resolved">>]

ResolveResults(r) ==
    {Err("AuthorizationFailed"),
     Ok(r.command.value.execution),
     Ok(Rewritten(r.command.value.execution))}

SpawnResults == {Err("SpawnFailed"), Ok("child")}

(* What one child.wait(true) may yield: a status, with whether the child is
   gone after it (an exit always; a signal when it killed the child), or an
   error. A child already reaped yields only errors. *)
WaitResults(r) ==
    IF r.child = "running"
    THEN {[result |-> Err("WaitFailed"), child |-> "running"]}
         \cup (IF Len(r.waits) < MaxWaits
               THEN {[result |-> Ok(Exited(c)), child |-> "exited"] : c \in ExitCodes}
                    \cup {[result |-> Ok(Signaled(s)), child |-> k] :
                              s \in Signals, k \in {"running", "killed"}}
               ELSE {})
    ELSE {[result |-> Err("WaitFailed"), child |-> r.child]}

resolve_ignoring_error(r, res) ==
    [r EXCEPT !.pc = "spawn", !.resolves = @ + 1, !.resolved = res]

(* supervisor_client.resolve(execution_) and the short circuit of and_then. *)
resolve(r, res) ==
    IF res.ok
    THEN [r EXCEPT !.pc = "spawn", !.resolves = @ + 1, !.resolved = res]
    ELSE [r EXCEPT !.pc = "returned", !.resolves = @ + 1, !.resolved = res, !.result = res]

spawn_reporting_failure(r, res) ==
    [r EXCEPT !.pc = "report_start", !.spawned = res, !.spawns = @ + 1,
              !.child = IF res.ok THEN "running" ELSE "none"]

(* What sys::Process::Builder is given: the executable, the arguments and the
   environment of the execution resolve returned. *)
Builder(execution) ==
    [executable |-> execution.executable, arguments |-> execution.arguments,
     environment |-> execution.environment]

(* sys::Process::Builder(...).spawn() *)
spawn(r, res) ==
    IF res.ok
    THEN [r EXCEPT !.pc = "report_start", !.spawned = res, !.spawns = @ + 1,
                   !.spawnedFrom = Some(Builder(r.resolved.value)),
                   !.child = "running"]
    ELSE [r EXCEPT !.pc = "returned", !.spawned = res, !.spawns = @ + 1,
                   !.spawnedFrom = Some(Builder(r.resolved.value)), !.result = res]

report_start_original_execution(r, ok) ==
    [report(r, StartEvent("child", "parent", r.command.value.execution), ok)
        EXCEPT !.pc = "guard"]

(* on_success of spawn: the Start event. *)
report_start(r, ok) ==
    [report(r, StartEvent("child", "parent", r.resolved.value), ok) EXCEPT !.pc = "guard"]

(* sys::SignalForwarder guard(child) *)
install_guard(r) ==
    [r EXCEPT !.pc = "wait", !.saved = Some(r.disposition), !.disposition = "forward",
              !.guardInstalls = @ + 1]

(* ~SignalForwarder *)
release_guard(r) ==
    [r EXCEPT !.disposition = r.saved.value, !.saved = None]

(* auto status = child.wait(true) *)
wait(r, w) ==
    [r EXCEPT !.pc = IF w.result.ok THEN "report_status" ELSE "check",
              !.status = w.result,
              !.waits = IF w.result.ok THEN Append(@, w.result.value) ELSE @,
              !.waitFailed = @ \/ ~w.result.ok,
              !.child = w.child]

report_status_terminate_always(r, ok) ==
    [report(r, TerminateEvent(r.status.value.n), ok) EXCEPT !.pc = "check"]

report_status_fatal(r, ok) ==
    LET event == IF is_signaled(r.status.value)
                 THEN SignalEvent(signal(r.status.value).value)
                 ELSE TerminateEvent(code(r.status.value).value)
    IN  IF ok
        THEN [report(r, event, ok) EXCEPT !.pc = "check"]
        ELSE [report(r, event, ok) EXCEPT !.pc = "returned", !.result = Err("ReportFailed"),
                                          !.disposition = r.saved.value, !.saved = None]

report_status_exit_only(r, ok) ==
    IF is_signaled(r.status.value)
    THEN [r EXCEPT !.pc = "check"]
    ELSE [report(r, TerminateEvent(code(r.status.value).value), ok) EXCEPT !.pc = "check"]

(* status.on_success: the Signal or Terminate event. *)
report_status(r, ok) ==
    LET exit == r.status.value
        event == IF is_signaled(exit)
                 THEN SignalEvent(signal(exit).value)
                 ELSE TerminateEvent(code(exit).value)
    IN  [report(r, event, ok) EXCEPT !.pc = "check"]

exit_code_always_failure(st) == EXIT_FAILURE

(* .map<int>: status.code().value_or(EXIT_FAILURE) *)
exit_code(st) == IF code(st).ok THEN code(st).value ELSE EXIT_FAILURE

leave_loop_keeping_guard(r) ==
    [r EXCEPT !.pc = "returned", !.result = Ok(exit_code(r.status.value))]

(* return status: the guard goes out of scope, the status is mapped. *)
leave_loop(r) ==
    [release_guard(r) EXCEPT !.pc = "returned", !.result = Ok(exit_code(r.status.value))]

check_leaving_on_any_status(r) ==
    IF r.status.ok THEN leave_loop(r) ELSE [r EXCEPT !.pc = "wait"]

(* if (status.map(is_exited).unwrap_or(false)) return status; else loop. *)
check(r) ==
    LET exited == IF r.status.ok THEN is_exited(r.status.value) ELSE FALSE
    IN  IF exited THEN leave_loop(r) ELSE [r EXCEPT !.pc = "wait"]

(* A termination signal reaches the wrapper process. *)
Alive(r) == r.pc \notin {"returned", "failed", "usage_exit", "killed"}

deliver_signal(r) ==
    LET counted == [r EXCEPT !.signals = @ + 1,
                             !.childSignals = IF r.child = "running" THEN @ + 1 ELSE @]
    IN  IF r.disposition = "forward"
        THEN [counted EXCEPT !.forwarded = IF r.child = "running" THEN @ + 1 ELSE @]
        ELSE IF r.disposition = "ignore" THEN counted
        ELSE [counted EXCEPT !.pc = "killed"]

----------------------------------------------------------------------------
(* One run *)

Init ==
    /\ \E argv \in Argvs, environment \in Environments, cwdOk \in BOOLEAN,
          disposition \in Dispositions :
            run = InitRun(argv, environment, cwdOk, disposition)
    /\ run2 = run

Command_ ==
    /\ run.pc = "command"
    /\ run' = command(run)
    /\ UNCHANGED run2

FromEnvs ==
    /\ run.pc = "from_envs"
    /\ run' = from_envs(run)
    /\ UNCHANGED run2

Parse ==
    /\ run.pc = "parse"
    /\ \E outcome \in {Err("usage")} \cup {Ok(a) : a \in ParsedArguments} :
          run' = parse(run, outcome)
    /\ UNCHANGED run2

FromArgs ==
    /\ run.pc = "from_args"
    /\ run' = from_args(run)
    /\ UNCHANGED run2

Resolve ==
    /\ run.pc = "resolve"
    /\ \E res \in ResolveResults(run) : run' = resolve(run, res)
    /\ UNCHANGED run2

Spawn ==
    /\ run.pc = "spawn"
    /\ \E res \in SpawnResults : run' = spawn(run, res)
    /\ UNCHANGED run2

ReportStart ==
    /\ run.pc = "report_start"
    /\ \E ok \in BOOLEAN : run' = report_start(run, ok)
    /\ UNCHANGED run2

InstallGuard ==
    /\ run.pc = "guard"
    /\ run' = install_guard(run)
    /\ UNCHANGED run2

Wait ==
    /\ run.pc = "wait"
    /\ \E w \in WaitResults(run) : run' = wait(run, w)
    /\ UNCHANGED run2

ReportStatus ==
    /\ run.pc = "report_status"
    /\ \E ok \in BOOLEAN : run' = report_status(run, ok)
    /\ UNCHANGED run2

Check ==
    /\ run.pc = "check"
    /\ run' = check(run)
    /\ UNCHANGED run2

DeliverSignal ==
    /\ Alive(run)
    /\ run.signals < MaxSignals
    /\ run' = deliver_signal(run)
    /\ UNCHANGED run2

Next ==
    \/ Command_ \/ FromEnvs \/ Parse \/ FromArgs
    \/ Resolve \/ Spawn \/ ReportStart \/ InstallGuard
    \/ Wait \/ ReportStatus \/ Check
    \/ DeliverSignal

Spec == Init /\ [][Next]_vars

(* The wrapper is a sequential program: a step that does not block is taken.
   A wait on a child that is gone returns at once (with an error); a wait on
   a running child may block for ever. *)
WrapperStep ==
    \/ Command_ \/ FromEnvs \/ Parse \/ FromArgs
    \/ Resolve \/ Spawn \/ ReportStart \/ InstallGuard
    \/ ReportStatus \/ Check

WaitOnReaped == run.child # "running" /\ Wait

FairSpec == Spec /\ WF_vars(WrapperStep) /\ WF_vars(WaitOnReaped)

----------------------------------------------------------------------------
(* Two runs of Command::execute side by side: the same Command, the same
   resolve, spawn and wait results, and report calls that succeed or fail
   independently in each. *)

Construct(r, a) ==
    IF command(r).pc = "from_envs"
    THEN from_envs(command(r))
    ELSE from_args(parse(command(r), Ok(a)))

BuiltRuns ==
    {r \in {Construct(InitRun(argv, environment, cwdOk, disposition), a) :
                argv \in Argvs, environment \in Environments, cwdOk \in BOOLEAN,
                disposition \in Dispositions, a \in ParsedArguments} :
        r.pc = "resolve"}

PairInit ==
    /\ run \in BuiltRuns
    /\ run2 = run

PairResolve ==
    /\ run.pc = "resolve" /\ run2.pc = "resolve"
    /\ \E res \in ResolveResults(run) :
          run' = resolve(run, res) /\ run2' = resolve(run2, res)

PairSpawn ==
    /\ run.pc = "spawn" /\ run2.pc = "spawn"
    /\ \E res \in SpawnResults :
          run' = spawn(run, res) /\ run2' = spawn(run2, res)

PairReportStart ==
    /\ run.pc = "report_start" /\ run2.pc = "report_start"
    /\ \E ok1 \in BOOLEAN, ok2 \in BOOLEAN :
          run' = report_start(run, ok1) /\ run2' = report_start(run2, ok2)

PairInstallGuard ==
    /\ run.pc = "guard" /\ run2.pc = "guard"
    /\ run' = install_guard(run) /\ run2' = install_guard(run2)

PairWait ==
    /\ run.pc = "wait" /\ run2.pc = "wait"
    /\ \E w \in WaitResults(run) :
          run' = wait(run, w) /\ run2' = wait(run2, w)

PairReportStatus ==
    /\ run.pc = "report_status" /\ run2.pc = "report_status"
    /\ \E ok1 \in BOOLEAN, ok2 \in BOOLEAN :
          run' = report_status(run, ok1) /\ run2' = report_status(run2, ok2)

PairCheck ==
    /\ run.pc = "check" /\ run2.pc = "check"
    /\ run' = check(run) /\ run2' = check(run2)

PairNext ==
    \/ PairResolve \/ PairSpawn \/ PairReportStart \/ PairInstallGuard
    \/ PairWait \/ PairReportStatus \/ PairCheck

PairSpec == PairInit /\ [][PairNext]_vars

----------------------------------------------------------------------------
(* Command::execute alone, on a Command built by a wrapper call as "cc", with
   the fairness of FairSpec: what execute() does next does not depend on how
   its Command was built. *)

ExecInit ==
    /\ run \in {r \in BuiltRuns : r.argv = <<<<"cc">>>>}
    /\ run2 = run

ExecNext ==
    \/ Resolve \/ Spawn \/ ReportStart \/ InstallGuard
    \/ Wait \/ ReportStatus \/ Check
    \/ DeliverSignal

ExecFairSpec ==
    ExecInit /\ [][ExecNext]_vars /\ WF_vars(WrapperStep) /\ WF_vars(WaitOnReaped)

----------------------------------------------------------------------------
(* Properties of one run *)

Returned == run.pc = "returned"
ReturnedOk == Returned /\ run.result.ok
LastWait == run.waits[Len(run.waits)]
InLoop == run.pc \in {"wait", "report_status", "check"}
NoWait == run.waits = <<>> /\ ~run.waitFailed /\ run.status = Unset
NoEvents == run.events = <<>>

(* C1: when execute() returns an exit code (resolve and spawn succeeded, the
   child finally exited), the events reported are one Start, then one Signal
   per signaled status that wait returned, in order, then one Terminate; and
   in every state Start is only ever the first event and Terminate only ever
   the last one, so neither is reported twice and nothing follows Terminate. *)
C1_EventSequence ==
    /\ \A i \in 1..Len(run.events) :
          /\ run.events[i].type = "Start" <=> i = 1
          /\ run.events[i].type = "Terminate" => i = Len(run.events)
    /\ ReturnedOk =>
          /\ Len(run.events) = Len(run.waits) + 1
          /\ \A i \in 1..(Len(run.waits) - 1) :
                /\ run.waits[i].kind = "Signaled"
                /\ run.events[i + 1].type = "Signal"
                /\ run.events[i + 1].number = run.waits[i].n
          /\ LastWait.kind = "Exited"
          /\ run.events[Len(run.events)].type = "Terminate"
          /\ run.events[Len(run.events)].code = LastWait.n

C1_Witness ==
    ReturnedOk /\ Len(run.events) = 3 /\ run.events[2].type = "Signal"

(* C2: when resolve returns an error, execute() has returned that error, no
   process was spawned, no event was reported, no wait was made and the guard
   was never installed. *)
C2_ResolveFailure ==
    (run.resolved # Unset /\ ~run.resolved.ok) =>
        /\ Returned /\ ~run.result.ok /\ run.result = run.resolved
        /\ run.spawns = 0 /\ run.child = "none" /\ run.spawned = Unset
        /\ NoEvents /\ NoWait /\ run.guardInstalls = 0

C2_Witness == Returned /\ run.resolved = Err("AuthorizationFailed")

(* C3: once wait has returned an exited status with code C, execute() only
   reports it, checks it and returns Ok(C): it never waits again, and in every
   state where it has returned after that status its result is Ok(C). *)
C3_ExitCode ==
    (Len(run.waits) > 0 /\ LastWait.kind = "Exited") =>
        /\ run.pc \in {"report_status", "check", "returned"}
        /\ Returned => run.result = Ok(LastWait.n)

C3_Witness ==
    Returned /\ Len(run.waits) = 2 /\ run.result = Ok(3) /\ run.waits[1].kind = "Signaled"

(* C4: a child killed by a signal (wait yielded the signaled status that
   ended it, and it never exits normally) leads to execute() returning the
   generic failure code. *)
C4_KilledChildReturnsFailure ==
    (run.child = "killed") ~> (Returned /\ run.result = Ok(EXIT_FAILURE))

(* C5: after a wait has returned an error, and past the check of that status,
   the loop is over: execute() has returned the wait error, the guard is
   released, and no further wait or report happens. *)
C5_WaitErrorAbortsLoop ==
    (run.waitFailed /\ run.pc # "check") =>
        /\ Returned /\ run.result = Err("WaitFailed")
        /\ run.disposition = run.disposition0

(* C6: when the wrapper process has exited (returned, or ended by a signal),
   every termination signal that reached it while its child was running had
   been forwarded to the child. *)
C6_SignalsForwarded ==
    run.pc \in {"returned", "killed"} => run.forwarded = run.childSignals

(* C7: the guard is installed only after a successful spawn and held exactly
   while the wait loop runs: forwarding is the disposition in the loop and
   nowhere else, once execute() has returned the disposition is the one in
   place on entry, and after a failed resolve or spawn the guard was never
   installed. *)
C7_GuardScope ==
    /\ run.disposition = "forward" <=> InLoop
    /\ run.saved.ok <=> InLoop
    /\ Returned => run.disposition = run.disposition0
    /\ run.guardInstalls > 0 => (run.resolved.ok /\ run.spawned.ok)
    /\ run.guardInstalls <= 1

C7_Witness ==
    ReturnedOk /\ run.guardInstalls = 1 /\ run.disposition0 = "ignore"
    /\ run.disposition = "ignore"

(* C8: when resolve succeeded and spawn returns an error, execute() has
   returned that error, no event was reported, the guard was never installed
   and no wait was made. *)
C8_SpawnFailure ==
    (run.spawned # Unset /\ ~run.spawned.ok) =>
        /\ run.resolved.ok
        /\ Returned /\ ~run.result.ok /\ run.result = run.spawned
        /\ run.child = "none"
        /\ NoEvents /\ NoWait /\ run.guardInstalls = 0

C8_Witness == Returned /\ run.resolved.ok /\ run.spawned = Err("SpawnFailed")

(* The last path component of p is name: p is name itself, or name after a
   directory separator. *)
NamedBy(p, name) ==
    \E k \in 0..Len(p) :
        /\ SubSeq(p, k + 1, Len(p)) = name
        /\ k > 0 => p[k] = "/"

(* C10: past the dispatch, the supervisor-call path (flag parsing, from_args)
   is the one taken exactly when argc is 0 or the file name of argv[0] is
   "wrapper", whatever directories precede it; every other argv[0] takes the
   wrapper-call path (from_envs), on which the flags are never parsed. *)
C10_ModeDispatch ==
    /\ run.pc \notin {"command", "killed"} => run.path # "none"
    /\ run.path # "none" =>
          /\ run.path \in {"supervisor_call", "wrapper_call"}
          /\ run.path = "supervisor_call" <=>
                (run.argc = 0 \/ NamedBy(run.argv[1], WRAPPER_NAME))
    /\ run.pc \in {"parse", "from_args", "usage_exit"} => run.path = "supervisor_call"
    /\ run.pc = "from_envs" => run.path = "wrapper_call"
    /\ run.path = "wrapper_call" => (~run.parsed /\ run.args = None)
    /\ (run.path = "supervisor_call" /\ run.pc \notin {"parse", "killed"}) => run.parsed
    /\ (run.path = "supervisor_call" /\ run.command.ok) => (run.parsed /\ run.args.ok)

C10_Witness ==
    /\ run.pc = "from_args" /\ run.argc > 0
    /\ run.argv[1] = <<"cc", "/", "wrapper">>

(* C9: two runs given the same resolve, spawn and wait results, whose report
   calls succeed or fail independently, are at the same place, have made the
   same waits with the same results, and have returned the same result. *)
C9_ReportOutcomeIgnored ==
    /\ run.pc = run2.pc
    /\ run.waits = run2.waits
    /\ run.status = run2.status
    /\ run.waitFailed = run2.waitFailed
    /\ run.child = run2.child
    /\ run.events = run2.events
    /\ run.disposition = run2.disposition
    /\ run.result = run2.result

C9_Witness ==
    /\ run.pc = "returned" /\ run2.pc = "returned"
    /\ run.result = Ok(3) /\ run2.result = Ok(3)
    /\ Len(run.waits) = 2
    /\ run.reportFailed /\ ~run2.reportFailed

----------------------------------------------------------------------------
(* Properties of the construction of the Command *)

WrapperCall == run.path = "wrapper_call"
SupervisorCall == run.path = "supervisor_call"
Constructed == run.command # Unset
NothingExecuted ==
    /\ run.resolves = 0 /\ run.resolved = Unset /\ run.spawned = Unset /\ run.spawns = 0
    /\ run.spawnedFrom = None
    /\ run.child = "none" /\ NoEvents /\ NoWait /\ run.result = Unset

(* C11: on the wrapper-call path with no destination variable in the
   environment, from_envs ends with the error "Unknown destination.", whether
   the working directory is available or not; no Command is built and nothing
   is resolved, spawned or reported. *)
C11_UnknownDestination ==
    (WrapperCall /\ ~run.envp.destination.ok) =>
        /\ run.pc \in {"from_envs", "failed", "killed"}
        /\ run.pc = "failed" <=> Constructed
        /\ Constructed => run.command = Err("Unknown destination.")
        /\ NothingExecuted

C11_Witness ==
    /\ WrapperCall /\ ~run.envp.destination.ok /\ ~run.cwdOk
    /\ run.pc = "failed" /\ run.command = Err("Unknown destination.")

(* C12: whenever a Command exists, the destination of its Session is not the
   empty string. *)
C12_DestinationNonEmpty ==
    run.command.ok => run.command.value.session.destination # EmptyStr

(* C13: whenever execute() is at the spawn step, the executable of the
   Execution it spawns from is not empty. *)
C13_ExecutableNonEmpty ==
    run.pc = "spawn" => run.resolved.value.executable # EmptyStr

(* The session lookup and every execution lookup of the path taken found
   its value. *)
LookupsOk ==
    IF WrapperCall
    THEN run.envp.destination.ok /\ run.cwdOk
    ELSE /\ run.args.ok
         /\ run.args.value.destination.ok
         /\ run.args.value.execute.ok
         /\ run.args.value.command.ok
         /\ run.cwdOk

(* C14: a Command exists only if the session lookup and every execution
   lookup (program, arguments, working directory) succeeded; when one of them
   failed, from_envs / from_args has returned an error, no Command exists and
   nothing is resolved, spawned, waited for or reported; and execute() runs
   only on a built Command. *)
C14_AllLookupsOrNothing ==
    /\ run.command.ok => LookupsOk
    /\ (Constructed /\ ~LookupsOk) =>
          (~run.command.ok /\ run.pc = "failed" /\ NothingExecuted)
    /\ (Constructed /\ ~run.command.ok) => (run.pc = "failed" /\ NothingExecuted)
    /\ ~NothingExecuted => run.command.ok

C14_Witness ==
    /\ SupervisorCall /\ run.pc = "failed"
    /\ run.args.ok /\ run.args.value.destination.ok /\ run.args.value.execute.ok
    /\ ~run.args.value.command.ok /\ run.cwdOk

(* C15: on the wrapper-call path the flags are never parsed, and a Command
   that is built holds argv[0] as the executable, the whole argv in order as
   the arguments (argv[0] first, nothing taken as a flag), the inherited
   environment as the environment, and the value of the destination variable
   as the destination of the Session. *)
C15_WrapperCallFromArgvAndEnv ==
    WrapperCall =>
        /\ ~run.parsed /\ run.args = None
        /\ run.pc \notin {"parse", "from_args", "usage_exit"}
        /\ run.command.ok =>
              /\ run.command.value.execution.executable = run.argv[1]
              /\ Len(run.command.value.execution.arguments) = run.argc
              /\ \A i \in 1..run.argc :
                    run.command.value.execution.arguments[i] = run.argv[i]
              /\ run.command.value.execution.environment = run.envp
              /\ run.envp.destination.ok
              /\ run.command.value.session.destination = run.envp.destination.value

C15_Witness ==
    /\ WrapperCall /\ run.command.ok /\ run.argc = 2
    /\ run.command.value.execution.arguments = <<<<"cc">>, ExtraArg>>

----------------------------------------------------------------------------
(* Further properties of Command::execute *)

Executing ==
    run.pc \in {"spawn", "report_start", "guard", "wait", "report_status", "check", "returned"}

(* C16: within one execute() nothing is retried: resolve is called exactly
   once and spawn at most once, no status is reported more than once (at most
   one event per status besides Start), and after a resolve, spawn or wait has
   failed none of them is called again. *)
C16_NothingRetried ==
    /\ [](/\ run.resolves <= 1
          /\ Executing => run.resolves = 1
          /\ run.spawns <= 1
          /\ Len(run.events) <= Len(run.waits) + 1)
    /\ [][(\/ (run.resolved # Unset /\ ~run.resolved.ok)
           \/ (run.spawned # Unset /\ ~run.spawned.ok)
           \/ run.waitFailed)
          => /\ run'.resolves = run.resolves
             /\ run'.spawns = run.spawns
             /\ ~(run.pc = "wait" /\ run'.pc # "wait")]_vars

(* C17: the process is spawned from the executable, arguments and
   environment of the Execution that resolve returned (rewritten or not), not
   from the Command's own; the first event is the Start event, carrying the
   child's pid, the wrapper's parent pid and that Execution; and it is
   reported after the spawn succeeded and before any wait. *)
C17_SpawnAndStartUseResolved ==
    /\ run.spawns > 0 =>
          /\ run.resolved.ok
          /\ run.spawnedFrom.ok
          /\ run.spawnedFrom.value.executable = run.resolved.value.executable
          /\ run.spawnedFrom.value.arguments = run.resolved.value.arguments
          /\ run.spawnedFrom.value.environment = run.resolved.value.environment
    /\ run.events # <<>> =>
          /\ run.spawned.ok
          /\ run.events[1].type = "Start"
          /\ run.events[1].pid = run.spawned.value
          /\ run.events[1].ppid = "parent"
          /\ run.events[1].execution = run.resolved.value
    /\ (run.pc \in {"guard", "wait", "report_status", "check"} \/ ~NoWait) =>
          run.events # <<>>
    /\ run.pc = "report_start" => (run.spawned.ok /\ NoEvents /\ NoWait)

C17_Witness ==
    /\ run.pc = "wait" /\ NoWait /\ Len(run.events) = 1
    /\ run.resolved.value # run.command.value.execution
    /\ run.spawnedFrom.value.executable = <<"/", "resolved">>

ExitedSeen == Len(run.waits) > 0 /\ LastWait.kind = "Exited"

(* C18: once resolve and spawn have succeeded, execute() has returned only if
   a wait returned an exited status, so a child that never yields one (hung,
   or yielding only signaled statuses or errors) keeps execute() from
   returning; and, the wrapper's own steps being taken, a wait that returns
   an exited status leads to execute() returning. *)
C18_ReturnsIffExited ==
    /\ []((run.spawned.ok /\ Returned) => ExitedSeen)
    /\ []((run.spawned.ok /\ ~ExitedSeen) => ~Returned)
    /\ (ExitedSeen ~> Returned)

C18_Witness ==
    /\ Returned /\ run.spawned.ok /\ ExitedSeen
    /\ run.waitFailed /\ run.waits[1].kind = "Signaled"

Terminates == {i \in 1..Len(run.events) : run.events[i].type = "Terminate"}

(* C19: when execute() has returned Ok(n), exactly one Terminate event was
   reported, it is the last event and its code is n; and a Terminate event is
   only ever reported for the exited status that ends the loop: while one is
   among the events, the last status is that exited status and execute() is
   checking it or has returned. *)
C19_TerminateMatchesResult ==
    /\ ReturnedOk =>
          /\ Cardinality(Terminates) = 1
          /\ Len(run.events) \in Terminates
          /\ run.result.value = run.events[Len(run.events)].code
    /\ Terminates # {} =>
          /\ ExitedSeen
          /\ run.pc \in {"check", "returned"}
          /\ \A i \in Terminates : run.events[i].code = LastWait.n
          /\ \A i \in 1..(Len(run.waits) - 1) : run.waits[i].kind # "Exited"

C19_Witness ==
    /\ ReturnedOk /\ run.result = Ok(0)
    /\ run.events[Len(run.events)] = TerminateEvent(0)
    /\ Len(run.events) = 2

====
